---- MODULE Spec2Model ----
(***************************************************************************)
(* Model of src/src/main.rs: the CT log registry build                     *)
(* (parse_ct_log_list) and the embedded-SCT verification loop (main).      *)
(*                                                                         *)
(* Bytes are integers 0..255, byte strings are sequences of bytes, JSON    *)
(* strings are sequences of ASCII codes.  Offsets are 0-based as in the    *)
(* Rust code; Slice(v, a, b) is v[a..b].                                   *)
(*                                                                         *)
(* The crates main.rs calls (base64, x509-parser, sct) are modelled at     *)
(* the call site by what they do with the bytes they are given.            *)
(***************************************************************************)
EXTENDS Integers, Sequences, FiniteSets, TLC

\* ------------------------------------------------------------------ bounds
MaxOps == 2          \* operators in a dataset
MaxLogs == 2         \* log entries under one operator
MaxEntries == 3      \* entries in an SCT list
MaxOthers == 1       \* extensions other than the SCT list before it

\* ------------------------------------------------------- program constants
IdLen == 32          \* id: [u8; 32]
StartIndex == 6      \* let mut index: usize = 6

\* ------------------------------------------------------------ byte helpers
RECURSIVE SumSeq(_)
SumSeq(s) == IF s = <<>> THEN 0 ELSE s[1] + SumSeq(Tail(s))

RECURSIVE Flatten(_)
Flatten(ss) == IF ss = <<>> THEN <<>> ELSE ss[1] \o Flatten(Tail(ss))

\* v[a..b] of Rust, and whether that slice is in range (it panics otherwise)
Slice(v, a, b) == SubSeq(v, a + 1, b)
InRange(v, a, b) == a <= b /\ b <= Len(v)

\* u16::from_be_bytes(v[i..i+2])
U16At(v, i) == v[i + 1] * 256 + v[i + 2]

\* big-endian value of a byte string
RECURSIVE BeValue(_)
BeValue(s) == IF s = <<>> THEN 0 ELSE BeValue(SubSeq(s, 1, Len(s) - 1)) * 256 + s[Len(s)]

\* n-byte big-endian encoding of x
RECURSIVE BeBytes(_, _)
BeBytes(x, n) == IF n = 0 THEN <<>> ELSE BeBytes(x \div 256, n - 1) \o <<x % 256>>

\* ------------------------------------------------------------------ base64
\* BASE64_STANDARD: A-Z a-z 0-9 + /, '=' padding required, canonical only.
PadChar == 61
Sextet(c) ==
    IF c >= 65 /\ c <= 90 THEN c - 65
    ELSE IF c >= 97 /\ c <= 122 THEN c - 71
    ELSE IF c >= 48 /\ c <= 57 THEN c + 4
    ELSE IF c = 43 THEN 62
    ELSE IF c = 47 THEN 63
    ELSE -1

B64Char(n) ==
    IF n < 26 THEN n + 65
    ELSE IF n < 52 THEN n + 71
    ELSE IF n < 62 THEN n - 4
    ELSE IF n = 62 THEN 43
    ELSE 47

\* the encoder that wrote the dataset's log_id and key strings
RECURSIVE B64Encode(_)
B64Encode(b) ==
    IF b = <<>> THEN <<>>
    ELSE IF Len(b) = 1 THEN
        << B64Char(b[1] \div 4), B64Char((b[1] % 4) * 16), PadChar, PadChar >>
    ELSE IF Len(b) = 2 THEN
        << B64Char(b[1] \div 4), B64Char((b[1] % 4) * 16 + b[2] \div 16),
           B64Char((b[2] % 16) * 4), PadChar >>
    ELSE
        << B64Char(b[1] \div 4), B64Char((b[1] % 4) * 16 + b[2] \div 16),
           B64Char((b[2] % 16) * 4 + b[3] \div 64), B64Char(b[3] % 64) >>
        \o B64Encode(SubSeq(b, 4, Len(b)))

\* one group of four characters; last is TRUE for the final group
B64Group(g, last) ==
    LET s1 == Sextet(g[1])
        s2 == Sextet(g[2])
        s3 == Sextet(g[3])
        s4 == Sextet(g[4])
    IN  IF s1 < 0 \/ s2 < 0 THEN [ok |-> FALSE, bytes |-> <<>>]
        ELSE IF last /\ g[3] = PadChar /\ g[4] = PadChar THEN
            IF s2 % 16 # 0 THEN [ok |-> FALSE, bytes |-> <<>>]
            ELSE [ok |-> TRUE, bytes |-> << s1 * 4 + s2 \div 16 >>]
        ELSE IF s3 < 0 THEN [ok |-> FALSE, bytes |-> <<>>]
        ELSE IF last /\ g[4] = PadChar THEN
            IF s3 % 4 # 0 THEN [ok |-> FALSE, bytes |-> <<>>]
            ELSE [ok |-> TRUE,
                  bytes |-> << s1 * 4 + s2 \div 16, (s2 % 16) * 16 + s3 \div 4 >>]
        ELSE IF s4 < 0 THEN [ok |-> FALSE, bytes |-> <<>>]
        ELSE [ok |-> TRUE,
              bytes |-> << s1 * 4 + s2 \div 16, (s2 % 16) * 16 + s3 \div 4,
                           (s3 % 4) * 64 + s4 >>]

\* BASE64_STANDARD.decode(s)
RECURSIVE B64Decode(_)
B64Decode(s) ==
    IF s = <<>> THEN [ok |-> TRUE, bytes |-> <<>>]
    ELSE IF Len(s) % 4 # 0 THEN [ok |-> FALSE, bytes |-> <<>>]
    ELSE LET g == B64Group(SubSeq(s, 1, 4), Len(s) = 4)
             r == B64Decode(SubSeq(s, 5, Len(s)))
         IN  IF g.ok /\ r.ok THEN [ok |-> TRUE, bytes |-> g.bytes \o r.bytes]
             ELSE [ok |-> FALSE, bytes |-> <<>>]

\* ----------------------------------------------------------------- dataset
\* A JSON field of a log entry: absent, a string, or a value of another type.
Absent == [kind |-> "absent", s |-> <<>>]
Str(s) == [kind |-> "string", s |-> s]
NotStr == [kind |-> "number", s |-> <<>>]

\* "mmd": absent, an unsigned integer, or a value as_u64() refuses
MmdAbsent == [kind |-> "absent", v |-> 0]
MmdU64(v) == [kind |-> "u64", v |-> v]
MmdNegative == [kind |-> "negative", v |-> 0]
MmdString == [kind |-> "string", v |-> 0]

KeyA == << 48, 89, 1 >>
KeyB == << 48, 89, 2 >>
KeyC == << 48, 89, 3 >>

\* the id a log list publishes for a key: 32 bytes derived from the key
KeyDigest(key) == [i \in 1..IdLen |-> (SumSeq(key) * 7 + i * 13) % 256]
IdA == KeyDigest(KeyA)
IdB == KeyDigest(KeyB)
IdC == KeyDigest(KeyC)

MkLog(id, key, desc) ==
    [log_id |-> Str(B64Encode(id)), description |-> [present |-> TRUE, v |-> desc],
     url |-> TRUE, key |-> Str(B64Encode(key)), mmd |-> MmdU64(86400)]

LogA == MkLog(IdA, KeyA, 1)
LogB == MkLog(IdB, KeyB, 2)
\* a 32-byte log_id published with another log's key
LogAKeyB == MkLog(IdA, KeyB, 3)

\* log entries with one field missing or malformed
DefectLogs ==
    { [LogB EXCEPT !.log_id = Absent],
      [LogB EXCEPT !.log_id = NotStr],
      [LogB EXCEPT !.log_id = Str(<< 33, 33, 33, 33 >>)],
      [LogB EXCEPT !.log_id = Str(B64Encode(SubSeq(IdB, 1, IdLen - 1)))],
      [LogB EXCEPT !.description = [present |-> FALSE, v |-> 0]],
      [LogB EXCEPT !.url = FALSE],
      [LogB EXCEPT !.key = Absent],
      [LogB EXCEPT !.key = NotStr],
      [LogB EXCEPT !.key = Str(<< 65, 65, 65 >>)],
      [LogB EXCEPT !.mmd = MmdAbsent],
      [LogB EXCEPT !.mmd = MmdNegative],
      [LogB EXCEPT !.mmd = MmdString] }

SeqsUpTo(S, n) == UNION { [1..k -> S] : k \in 0..n }

LogsArray(items) == [kind |-> "array", items |-> items]
LogsAbsent == [kind |-> "absent", items |-> <<>>]
LogsNotArray == [kind |-> "object", items |-> <<>>]

MkOperator(hasName, logs) == [name |-> hasName, logs |-> logs]

ValidOperators ==
    { MkOperator(TRUE, LogsArray(l)) : l \in SeqsUpTo({LogA, LogB}, MaxLogs) }
    \cup { MkOperator(TRUE, LogsArray(<< LogAKeyB >>)) }

DefectOperators ==
    { MkOperator(FALSE, LogsArray(<<>>)), MkOperator(FALSE, LogsArray(<< LogA >>)),
      MkOperator(TRUE, LogsAbsent), MkOperator(TRUE, LogsNotArray) }
    \cup { MkOperator(TRUE, LogsArray(<< d >>)) : d \in DefectLogs }
    \cup { MkOperator(TRUE, LogsArray(<< LogA, d >>)) : d \in DefectLogs }

\* operator lists: valid operators only, or one defective operator with
\* nothing or a valid operator before and after it
Neighbours == { <<>>, << MkOperator(TRUE, LogsArray(<< LogA >>)) >> }
OperatorLists ==
    SeqsUpTo(ValidOperators, MaxOps)
    \cup { ops \in { p \o << d >> \o q : p \in Neighbours, d \in DefectOperators,
                                          q \in Neighbours } : Len(ops) <= MaxOps }

\* google_ct_log_list.json: text that is not JSON, JSON without "operators",
\* "operators" that is not an array, or a list of operators
Datasets ==
    { [kind |-> k, operators |-> <<>>] : k \in {"badjson", "nooperators", "notarray"} }
    \cup { [kind |-> "ok", operators |-> ops] : ops \in OperatorLists }

\* the dataset with logs A and B under two operators
DatasetAB ==
    [kind |-> "ok",
     operators |-> << MkOperator(TRUE, LogsArray(<< LogA >>)),
                      MkOperator(TRUE, LogsArray(<< LogB >>)) >>]

\* ---------------------------------------------------------------- registry
EmptyMap == [x \in {} |-> x]

\* HashMap::insert: a present key's value is replaced
MapInsert(m, k, v) == [x \in (DOMAIN m) \cup {k} |-> IF x = k THEN v ELSE m[x]]

\* the first `?` that returns in lines 42-77 for one log entry, "" if none
LogError(operator, log) ==
    IF log.log_id.kind = "absent" THEN "Failed to get log_id from ct logs"
    ELSE IF log.log_id.kind # "string" THEN "Failed to get log_id str from ct logs"
    ELSE IF ~B64Decode(log.log_id.s).ok THEN "base64 decode error"
    ELSE IF ~log.description.present THEN "Failed to get description from ct logs"
    ELSE IF ~log.url THEN "Failed to get url from ct logs"
    ELSE IF ~operator.name THEN "Failed to get name from ct logs"
    ELSE IF log.key.kind = "absent" THEN "Failed to get key from ct logs"
    ELSE IF log.key.kind # "string" THEN "Failed to get key str from ct logs"
    ELSE IF ~B64Decode(log.key.s).ok THEN "base64 decode error"
    ELSE IF Len(B64Decode(log.log_id.s).bytes) # IdLen THEN "could not convert slice to array"
    ELSE IF log.mmd.kind = "absent" THEN "Failed to get mmd from ct logs"
    ELSE IF log.mmd.kind # "u64" THEN "Failed to get mmd str from ct logs"
    ELSE ""

\* the CTLog of lines 49-75
MkCTLog(opIndex, log) ==
    [description |-> log.description.v,
     url |-> log.url,
     operated_by |-> opIndex,
     key |-> B64Decode(log.key.s).bytes,
     id |-> B64Decode(log.log_id.s).bytes,
     max_merge_delay |-> log.mmd.v]

\* ------------------------------------------------------------- certificate
\* Times.  The clock is in milliseconds since the epoch; SystemTime's
\* as_secs() is the clock divided by 1000.  Values are kept small: TLC's
\* integers are 32 bits wide.
Clocks == { 5000 }
\* stands for the ten years of the far-future scenario
FarFutureMs == 4000

\* the signature a log with `key` makes over a timestamp: one byte that
\* depends on both, padded to the signature's length
SigByte(key, timestamp) == (SumSeq(key) * 31 + timestamp) % 256
Signature(key, timestamp, len, good) ==
    [i \in 1..len |->
        IF i = 1 THEN (IF good THEN SigByte(key, timestamp)
                       ELSE (SigByte(key, timestamp) + 1) % 256)
        ELSE 0]

BigSig == 71
SmallSig == 8

\* one SCT as its log issued it
MkSct(id, key, timestamp, siglen, good, junk) ==
    [version |-> 0, id |-> id, key |-> key, timestamp |-> timestamp,
     siglen |-> siglen, good |-> good, junk |-> junk]

\* RFC 6962 serialization of one SCT: version, log id, timestamp,
\* extensions (none), hash and signature algorithm, signature
SctBytes(e) ==
    << e.version >> \o e.id \o BeBytes(e.timestamp, 8) \o << 0, 0 >>
    \o << 4, 3 >> \o BeBytes(e.siglen, 2)
    \o Signature(e.key, e.timestamp, e.siglen, e.good) \o e.junk

\* SCTs that verify, and SCTs that do not
PlainEntries ==
    { MkSct(IdA, KeyA, 3, BigSig, TRUE, <<>>),                   \* long past
      MkSct(IdB, KeyB, 3, SmallSig, TRUE, <<>>) }                \* short signature
SpecialEntries(clock) ==
    { MkSct(IdA, KeyA, clock - 1000, BigSig, TRUE, <<>>),        \* one second ago
      MkSct(IdB, KeyB, clock + FarFutureMs, BigSig, TRUE, <<>>), \* far future
      MkSct(IdA, KeyA, 3, BigSig, FALSE, <<>>),                  \* bad signature
      MkSct(IdC, KeyC, 3, BigSig, TRUE, <<>>),                   \* log not in the list
      MkSct(IdB, KeyB, 3, SmallSig, TRUE, << 0 >>) }             \* trailing byte
EntryKinds(clock) == PlainEntries \cup SpecialEntries(clock)

\* lists of up to MaxEntries SCTs, at most two of them special
SctLists(clock) ==
    { es \in SeqsUpTo(EntryKinds(clock), MaxEntries) :
        Cardinality({ i \in DOMAIN es : es[i] \in SpecialEntries(clock) }) <= 2 }

\* DER header of an OCTET STRING of n content bytes
DerHeader(n) ==
    IF n < 128 THEN << 4, n >>
    ELSE IF n < 256 THEN << 4, 129, n >>
    ELSE << 4, 130, n \div 256, n % 256 >>

\* An SCT list as a certificate carries it.  `over` is 0, or the index of the
\* entry whose length prefix declares one byte more than is left after it;
\* `totalDelta` is added to the list's total-length field.
EntryLen(entries, i) == Len(SctBytes(entries[i]))
RECURSIVE BytesFrom(_, _)
BytesFrom(entries, i) ==
    IF i > Len(entries) THEN 0 ELSE 2 + EntryLen(entries, i) + BytesFrom(entries, i + 1)
DeclaredLen(shape, i) ==
    IF shape.over = i THEN BytesFrom(shape.entries, i) - 2 + 1
    ELSE EntryLen(shape.entries, i)
ListBody(shape) ==
    Flatten([i \in 1..Len(shape.entries) |->
                BeBytes(DeclaredLen(shape, i), 2) \o SctBytes(shape.entries[i])])
ExtensionValue(shape) ==
    LET body == ListBody(shape)
    IN  DerHeader(2 + Len(body)) \o BeBytes(Len(body) + shape.totalDelta, 2) \o body

\* offset of entry i's bytes (after its length prefix) in the extension value
RECURSIVE EntryOffset(_, _)
EntryOffset(shape, i) ==
    IF i = 1 THEN Len(DerHeader(2 + Len(ListBody(shape)))) + 2 + 2
    ELSE EntryOffset(shape, i - 1) + EntryLen(shape.entries, i - 1) + 2

Shapes(clock) ==
    { sh \in [entries : SctLists(clock),
              over : 0..MaxEntries, totalDelta : {-1, 0, 1}] :
        /\ sh.over <= Len(sh.entries)
        /\ sh.over # 0 => sh.totalDelta = 0
        /\ sh.entries = <<>> => sh.totalDelta # -1 }

WellFormed(shape) == shape.over = 0 /\ shape.totalDelta = 0 /\ shape.entries # <<>>

\* A certificate: whether its DER decodes, and its extensions in order.
\* An extension is either the SCT list (sct = TRUE, the OID
\* 1.3.6.1.4.1.11129.2.4.2) with its value, or some other extension.
OtherExtension == [sct |-> FALSE, value |-> << 4, 0 >>]
SctExtension(shape) == [sct |-> TRUE, value |-> ExtensionValue(shape)]
Others(n) == [i \in 1..n |-> OtherExtension]
NoShape == [entries |-> <<>>, over |-> 0, totalDelta |-> 0]

\* an input: the certificate and, when it has an SCT list, the list's shape
CertInputs(clock) ==
    { [cert |-> [der_ok |-> FALSE, extensions |-> <<>>], hasSct |-> FALSE, shape |-> NoShape] }
    \cup { [cert |-> [der_ok |-> TRUE, extensions |-> Others(n)],
            hasSct |-> FALSE, shape |-> NoShape] : n \in 0..MaxOthers }
    \cup { [cert |-> [der_ok |-> TRUE, extensions |-> Others(n) \o << SctExtension(sh) >>],
            hasSct |-> TRUE, shape |-> sh] :
            n \in {0, MaxOthers}, sh \in Shapes(clock) }

\* the certificate the registry cases run with: one SCT of log A
PlainShape(clock) ==
    [entries |-> << MkSct(IdA, KeyA, 3, BigSig, TRUE, <<>>) >>, over |-> 0, totalDelta |-> 0]
PlainCert(clock) ==
    [cert |-> [der_ok |-> TRUE, extensions |-> << SctExtension(PlainShape(clock)) >>],
     hasSct |-> TRUE, shape |-> PlainShape(clock)]

\* ------------------------------------------- x509-parser: the SCT extension
Failed == [ok |-> FALSE, scts |-> <<>>]

\* <&[u8]>::from_der: the content of a DER OCTET STRING, or nothing.  Length
\* forms of up to three bytes are read: an SCT list is at most 65537 bytes.
DerOctetString(v) ==
    IF Len(v) < 2 \/ v[1] # 4 THEN [ok |-> FALSE, content |-> <<>>]
    ELSE IF v[2] < 128 THEN
        IF 2 + v[2] <= Len(v) THEN [ok |-> TRUE, content |-> SubSeq(v, 3, 2 + v[2])]
        ELSE [ok |-> FALSE, content |-> <<>>]
    ELSE LET n == v[2] - 128
         IN  IF n = 0 \/ n > 3 \/ Len(v) < 2 + n THEN [ok |-> FALSE, content |-> <<>>]
             ELSE LET len == BeValue(SubSeq(v, 3, 2 + n))
                  IN  IF 2 + n + len <= Len(v)
                      THEN [ok |-> TRUE, content |-> SubSeq(v, 3 + n, 2 + n + len)]
                      ELSE [ok |-> FALSE, content |-> <<>>]

\* parse_ct_signed_certificate_timestamp_content: the fields of one SCT;
\* bytes after the signature are left unread
SctContent(c) ==
    IF Len(c) < 1 + IdLen + 8 + 2 THEN [ok |-> FALSE, key_id |-> <<>>, timestamp |-> 0]
    ELSE LET extAt == 1 + IdLen + 8
             extLen == U16At(c, extAt)
             sigAt == extAt + 2 + extLen + 2
         IN  IF Len(c) < sigAt + 2 THEN [ok |-> FALSE, key_id |-> <<>>, timestamp |-> 0]
             ELSE IF Len(c) < sigAt + 2 + U16At(c, sigAt)
                  THEN [ok |-> FALSE, key_id |-> <<>>, timestamp |-> 0]
             ELSE [ok |-> TRUE, key_id |-> Slice(c, 1, 1 + IdLen),
                   timestamp |-> BeValue(Slice(c, 1 + IdLen, 1 + IdLen + 8))]

\* many1(complete(parse_ct_signed_certificate_timestamp)): entries are read
\* until one does not parse; what follows it is dropped
RECURSIVE ManyScts(_)
ManyScts(b) ==
    IF Len(b) < 2 THEN <<>>
    ELSE LET len == U16At(b, 0)
         IN  IF Len(b) < 2 + len THEN <<>>
             ELSE LET c == SctContent(Slice(b, 2, 2 + len))
                  IN  IF ~c.ok THEN <<>>
                      ELSE << [key_id |-> c.key_id, timestamp |-> c.timestamp] >>
                           \o ManyScts(Slice(b, 2 + len, Len(b)))

\* parse_ct_signed_certificate_timestamp_list: the octet string, the 2-byte
\* total length, that many bytes, and at least one entry in them
ParseSctList(v) ==
    LET os == DerOctetString(v)
    IN  IF ~os.ok \/ Len(os.content) < 2 THEN Failed
        ELSE LET total == U16At(os.content, 0)
             IN  IF Len(os.content) < 2 + total THEN Failed
                 ELSE LET scts == ManyScts(Slice(os.content, 2, 2 + total))
                      IN  IF scts = <<>> THEN Failed ELSE [ok |-> TRUE, scts |-> scts]

\* ------------------------------------------------------ sct: verify_sct
\* Sct::parse, lookup among the logs given, signature, then timestamp
VerifySct(sct_raw, at_time, log) ==
    IF Len(sct_raw) < 1 THEN "MalformedSct"
    ELSE IF sct_raw[1] # 0 THEN "UnsupportedSctVersion"
    ELSE IF Len(sct_raw) < 1 + IdLen + 8 + 2 THEN "MalformedSct"
    ELSE LET extAt == 1 + IdLen + 8
             extLen == U16At(sct_raw, extAt)
             sigAt == extAt + 2 + extLen + 2
         IN  IF Len(sct_raw) < sigAt + 2 THEN "MalformedSct"
             ELSE IF Len(sct_raw) # sigAt + 2 + U16At(sct_raw, sigAt) THEN "MalformedSct"
             ELSE LET id == Slice(sct_raw, 1, 1 + IdLen)
                      timestamp == BeValue(Slice(sct_raw, 1 + IdLen, 1 + IdLen + 8))
                      alg == U16At(sct_raw, sigAt - 2)
                      sig == Slice(sct_raw, sigAt + 2, Len(sct_raw))
                  IN  IF id # log.id THEN "UnknownLog"
                      ELSE IF alg # 1027 \/ sig = <<>> \/ sig[1] # SigByte(log.key, timestamp)
                           THEN "InvalidSignature"
                      ELSE IF timestamp > at_time THEN "TimestampInFuture"
                      ELSE "Ok"

\* ------------------------------------------------------------------- state
VARIABLES
    dataset,      \* google_ct_log_list.json as parsed text
    input,        \* the certificate (and the shape its SCT list was built from)
    clock,        \* SystemTime::now(), milliseconds since the epoch
    pc,           \* where main is
    result,       \* "running", then "ok" (Ok(())), "error" (Err) or "panic"
    error,        \* the error or panic message
    opIdx,        \* parse_ct_log_list: the operator the outer loop is at
    logIdx,       \* parse_ct_log_list: the log the inner loop is at
    ct_logs_map,  \* parse_ct_log_list: the map being filled
    log_list,     \* main: the registry parse_ct_log_list returned, if any
    extIdx,       \* main: the extension the outer loop is at
    scts,         \* main: the SCTs x509-parser decoded from the extension
    sctIdx,       \* main: the SCT the inner loop is at
    index,        \* main: the cursor into extension.value
    verified      \* the calls of verify_sct so far: slice taken and outcome

vars == << dataset, input, clock, pc, result, error, opIdx, logIdx, ct_logs_map,
           log_list, extIdx, scts, sctIdx, index, verified >>

cert == input.cert
NoRegistry == [built |-> FALSE, map |-> EmptyMap]

Inputs(c) ==
    { [dataset |-> d, given |-> PlainCert(c)] : d \in Datasets }
    \cup { [dataset |-> DatasetAB, given |-> g] : g \in CertInputs(c) }

Init ==
    \E c \in Clocks : \E in \in Inputs(c) :
        /\ dataset = in.dataset
        /\ input = in.given
        /\ clock = c
        /\ pc = "parse_cert"
        /\ result = "running"
        /\ error = ""
        /\ opIdx = 0
        /\ logIdx = 0
        /\ ct_logs_map = EmptyMap
        /\ log_list = NoRegistry
        /\ extIdx = 0
        /\ scts = <<>>
        /\ sctIdx = 0
        /\ index = 0
        /\ verified = <<>>

\* main returns Err(msg), or unwinds with a panic
Stop(how, msg) ==
    /\ pc' = "done"
    /\ result' = how
    /\ error' = msg

\* lines 87-91: decode the certificate
ParseCert ==
    /\ pc = "parse_cert"
    /\ IF cert.der_ok
       THEN pc' = "read_dataset" /\ UNCHANGED << result, error >>
       ELSE Stop("error", "Server Certificate Verification Failed: x509 - Bad Encoding.")
    /\ UNCHANGED << dataset, input, clock, opIdx, logIdx, ct_logs_map, log_list,
                    extIdx, scts, sctIdx, index, verified >>

\* lines 20-32: parse the JSON text and take its "operators" array
ReadDataset ==
    /\ pc = "read_dataset"
    /\ IF dataset.kind = "badjson" THEN
           Stop("error", "JSON syntax error") /\ UNCHANGED opIdx
       ELSE IF dataset.kind = "nooperators" THEN
           Stop("error", "Failed to get operators from ct logs") /\ UNCHANGED opIdx
       ELSE IF dataset.kind = "notarray" THEN
           Stop("error", "Failed to get array of operators from ct logs") /\ UNCHANGED opIdx
       ELSE pc' = "operators" /\ opIdx' = 1 /\ UNCHANGED << result, error >>
    /\ ct_logs_map' = EmptyMap
    /\ UNCHANGED << dataset, input, clock, logIdx, log_list,
                    extIdx, scts, sctIdx, index, verified >>

\* lines 34-40 and 81: the next operator's "logs", or the map is returned
NextOperator ==
    /\ pc = "operators"
    /\ IF opIdx > Len(dataset.operators) THEN
           /\ log_list' = [built |-> TRUE, map |-> ct_logs_map]
           /\ pc' = "extensions"
           /\ extIdx' = 1
           /\ UNCHANGED << result, error, logIdx >>
       ELSE LET logs == dataset.operators[opIdx].logs
            IN  /\ IF logs.kind = "absent" THEN
                       Stop("error", "Failed to get logs from ct logs") /\ UNCHANGED logIdx
                   ELSE IF logs.kind # "array" THEN
                       Stop("error", "Failed to get array of logs from ct logs")
                       /\ UNCHANGED logIdx
                   ELSE pc' = "logs" /\ logIdx' = 1 /\ UNCHANGED << result, error >>
                /\ UNCHANGED << log_list, extIdx >>
    /\ UNCHANGED << dataset, input, clock, opIdx, ct_logs_map, scts, sctIdx, index, verified >>

\* lines 41-78: one log entry is decoded and inserted, or the build returns
\* the first error; after the last entry the operator loop goes on
NextLog ==
    /\ pc = "logs"
    /\ LET operator == dataset.operators[opIdx]
           logs == operator.logs.items
       IN  IF logIdx > Len(logs) THEN
               /\ pc' = "operators"
               /\ opIdx' = opIdx + 1
               /\ UNCHANGED << result, error, logIdx, ct_logs_map >>
           ELSE IF LogError(operator, logs[logIdx]) # "" THEN
               /\ Stop("error", LogError(operator, logs[logIdx]))
               /\ UNCHANGED << opIdx, logIdx, ct_logs_map >>
           ELSE
               /\ ct_logs_map' = MapInsert(ct_logs_map, MkCTLog(opIdx, logs[logIdx]).id,
                                           MkCTLog(opIdx, logs[logIdx]))
               /\ logIdx' = logIdx + 1
               /\ UNCHANGED << pc, result, error, opIdx >>
    /\ UNCHANGED << dataset, input, clock, log_list, extIdx, scts, sctIdx, index, verified >>

\* NextExtension with a run over a certificate without the SCT list ending
\* in an error instead of Ok(())
NextExtensionBailsWithoutSctList ==
    /\ pc = "extensions"
    /\ IF extIdx > Len(cert.extensions) THEN
           (IF \E i \in DOMAIN cert.extensions : cert.extensions[i].sct
            THEN Stop("ok", "")
            ELSE Stop("error", "Failed to parse SCT extension"))
           /\ UNCHANGED << extIdx, scts, sctIdx, index >>
       ELSE IF ~cert.extensions[extIdx].sct THEN
           /\ extIdx' = extIdx + 1
           /\ UNCHANGED << pc, result, error, scts, sctIdx, index >>
       ELSE IF ~ParseSctList(cert.extensions[extIdx].value).ok THEN
           Stop("error", "Failed to parse SCT extension")
           /\ UNCHANGED << extIdx, scts, sctIdx, index >>
       ELSE
           /\ scts' = ParseSctList(cert.extensions[extIdx].value).scts
           /\ sctIdx' = 1
           /\ index' = StartIndex
           /\ pc' = "scts"
           /\ UNCHANGED << result, error, extIdx >>
    /\ UNCHANGED << dataset, input, clock, opIdx, logIdx, ct_logs_map, log_list, verified >>

\* lines 96-100 and 131-137: the next extension; the SCT list starts the
\* inner loop with the cursor at 6, or fails the run when x509-parser could
\* not decode it; after the last extension main returns Ok(())
NextExtension ==
    /\ pc = "extensions"
    /\ IF extIdx > Len(cert.extensions) THEN
           Stop("ok", "") /\ UNCHANGED << extIdx, scts, sctIdx, index >>
       ELSE IF ~cert.extensions[extIdx].sct THEN
           /\ extIdx' = extIdx + 1
           /\ UNCHANGED << pc, result, error, scts, sctIdx, index >>
       ELSE IF ~ParseSctList(cert.extensions[extIdx].value).ok THEN
           Stop("error", "Failed to parse SCT extension")
           /\ UNCHANGED << extIdx, scts, sctIdx, index >>
       ELSE
           /\ scts' = ParseSctList(cert.extensions[extIdx].value).scts
           /\ sctIdx' = 1
           /\ index' = StartIndex
           /\ pc' = "scts"
           /\ UNCHANGED << result, error, extIdx >>
    /\ UNCHANGED << dataset, input, clock, opIdx, logIdx, ct_logs_map, log_list, verified >>

\* lines 101-130: one SCT: the registry lookup (unwrap), the length prefix at
\* the cursor, the slice after it, and verify_sct on that slice with the
\* clock in seconds; after the last SCT the extension loop goes on
NextSct ==
    /\ pc = "scts"
    /\ LET value == cert.extensions[extIdx].value
           key_id == scts[sctIdx].key_id
           length == U16At(value, index)
           sct_raw == Slice(value, index + 2, index + 2 + length)
           now == clock \div 1000
       IN  IF sctIdx > Len(scts) THEN
               /\ pc' = "extensions"
               /\ extIdx' = extIdx + 1
               /\ UNCHANGED << result, error, sctIdx, index, verified >>
           ELSE IF key_id \notin DOMAIN log_list.map THEN
               /\ Stop("panic", "called Option::unwrap() on a None value")
               /\ UNCHANGED << extIdx, sctIdx, index, verified >>
           ELSE IF ~InRange(value, index, index + 2) THEN
               /\ Stop("panic", "range end index out of range for slice")
               /\ UNCHANGED << extIdx, sctIdx, index, verified >>
           ELSE IF ~InRange(value, index + 2, index + 2 + length) THEN
               /\ Stop("panic", "range end index out of range for slice")
               /\ UNCHANGED << extIdx, sctIdx, index, verified >>
           ELSE
               /\ verified' = Append(verified,
                     [from |-> index + 2, len |-> length,
                      outcome |-> VerifySct(sct_raw, now, log_list.map[key_id])])
               /\ index' = index + 2 + length
               /\ sctIdx' = sctIdx + 1
               /\ UNCHANGED << pc, result, error, extIdx >>
    /\ UNCHANGED << dataset, input, clock, opIdx, logIdx, ct_logs_map, log_list, scts >>

Next ==
    \/ ParseCert
    \/ ReadDataset
    \/ NextOperator
    \/ NextLog
    \/ NextExtension
    \/ NextSct

Spec == Init /\ [][Next]_vars

\* ------------------------------------------------------- claims: vocabulary
Done == pc = "done"
shape == input.shape
entries == input.shape.entries

\* the value of the certificate's SCT-list extension
SctValue == ExtensionValue(shape)

\* the positions << operator, log >> of the dataset's log entries
LogPositions ==
    UNION { { << o, l >> : l \in DOMAIN dataset.operators[o].logs.items } :
            o \in DOMAIN dataset.operators }
LogAt(p) == dataset.operators[p[1]].logs.items[p[2]]

\* the 32 bytes an entry's log_id decodes to, << >> when it does not
DecodedId(p) ==
    IF LogAt(p).log_id.kind = "string" /\ B64Decode(LogAt(p).log_id.s).ok
       /\ Len(B64Decode(LogAt(p).log_id.s).bytes) = IdLen
    THEN B64Decode(LogAt(p).log_id.s).bytes
    ELSE <<>>

HasDuplicateIds ==
    \E p, q \in LogPositions : p # q /\ DecodedId(p) # <<>> /\ DecodedId(p) = DecodedId(q)

\* an operator lacks name or logs, or a log lacks a required field or has an
\* mmd that is not a non-negative integer
MissingField ==
    \/ \E o \in DOMAIN dataset.operators :
          ~dataset.operators[o].name \/ dataset.operators[o].logs.kind = "absent"
    \/ \E p \in LogPositions :
          \/ LogAt(p).log_id.kind = "absent"
          \/ ~LogAt(p).description.present
          \/ ~LogAt(p).url
          \/ LogAt(p).key.kind = "absent"
          \/ LogAt(p).mmd.kind # "u64"

\* the list's envelope header is 4 bytes long: its entries start at offset 8
Aligned == EntryOffset(shape, 1) = StartIndex + 2
AllKnown == \A i \in DOMAIN entries : entries[i].id \in DOMAIN log_list.map
Overrun == shape.over > 0 \/ shape.totalDelta # 0

\* the run finished on a certificate with a well-formed SCT list
FinishedWellFormed == Done /\ log_list.built /\ input.hasSct /\ WellFormed(shape)

\* ------------------------------------------------------------------ claims

\* C1: the registry build fails, and no registry is produced, whenever two
\* log entries of the dataset decode to the same 32-byte log_id.
C1_DuplicateLogIdFailsBuild == HasDuplicateIds => ~log_list.built

\* C2: with a well-formed list (envelope header of 4 bytes) that holds an SCT
\* of a log the registry does not know, the run does not panic: every SCT is
\* verified, and the unknown log's SCT gets UnknownLog.
C2_UnknownLogIsPerSct ==
    (FinishedWellFormed /\ Aligned /\ ~AllKnown) =>
        /\ result = "ok"
        /\ Len(verified) = Len(entries)
        /\ \A i \in DOMAIN entries :
              entries[i].id \notin DOMAIN log_list.map => verified[i].outcome = "UnknownLog"

\* C3: the registry build fails, no registry is returned and no SCT is
\* verified, whenever an operator lacks name or logs or a log entry lacks a
\* required field (an operator without name and with an empty logs list, and
\* an mmd that is not a non-negative integer, included).
C3_MissingFieldFailsBuild == MissingField => (~log_list.built /\ verified = <<>>)

\* C4: every CTLog of a registry a build returned has the digest of its
\* public key as its log_id (KeyDigest stands for SHA-256).
C4_LogIdIsDigestOfKey ==
    log_list.built => \A id \in DOMAIN log_list.map : id = KeyDigest(log_list.map[id].key)

\* C5: when an entry's length prefix declares more bytes than remain, or the
\* total length does not match the bytes available (envelope header of 4
\* bytes, all logs known), the run ends with an error value and no SCT of
\* the extension was handed to verification.
C5_OverrunIsFormatError ==
    (Done /\ log_list.built /\ input.hasSct /\ Overrun /\ Aligned /\ AllKnown) =>
        (result = "error" /\ verified = <<>>)

\* C6: the SCT timestamp (milliseconds) is compared with the current time in
\* milliseconds: an SCT stamped at or before the clock never gets
\* TimestampInFuture, and a well-signed one stamped far ahead always does.
C6_TimestampComparedInMilliseconds ==
    (log_list.built /\ input.hasSct /\ WellFormed(shape) /\ Aligned) =>
        \A i \in DOMAIN verified :
            /\ entries[i].timestamp <= clock => verified[i].outcome # "TimestampInFuture"
            /\ (entries[i].timestamp >= clock + FarFutureMs /\ entries[i].good
                /\ entries[i].junk = <<>>) => verified[i].outcome = "TimestampInFuture"

\* C7: for a well-formed list of n entries of known logs the run performs
\* exactly n verifications, the i-th on the i-th entry, whatever the earlier
\* outcomes, and returns Ok(()).
C7_OneVerificationPerEntryInOrder ==
    (FinishedWellFormed /\ AllKnown) =>
        /\ result = "ok"
        /\ Len(verified) = Len(entries)
        /\ \A i \in DOMAIN verified :
              /\ verified[i].from = EntryOffset(shape, i)
              /\ verified[i].len = EntryLen(entries, i)

\* C8: a certificate without the SCT-list extension makes the run return
\* Ok(()) with nothing decoded and nothing verified, while a certificate whose
\* SCT-list extension x509-parser could not decode makes it return the error
\* "Failed to parse SCT extension".
C8_NoSctListIsNotAnError ==
    /\ (Done /\ log_list.built /\ ~input.hasSct) =>
          (result = "ok" /\ error = "" /\ scts = <<>> /\ verified = <<>>)
    /\ (Done /\ log_list.built /\ input.hasSct /\ ~ParseSctList(SctValue).ok) =>
          (result = "error" /\ error = "Failed to parse SCT extension")

\* a run over a certificate with another extension and no SCT list finished
C8_Witness ==
    /\ Done /\ log_list.built /\ ~input.hasSct
    /\ cert.extensions # <<>>
    /\ extIdx > Len(cert.extensions)
    /\ result = "ok"

\* C9: an SCT list of total length 0 with no entries makes the run finish
\* without error, without moving the cursor and without a verification.
C9_EmptyListIsNotAnError ==
    (Done /\ log_list.built /\ input.hasSct /\ entries = <<>> /\ shape.totalDelta = 0) =>
        (result = "ok" /\ verified = <<>> /\ index \in {0, StartIndex})

\* C10: for every well-formed list, whatever the length of its envelope
\* header, the i-th slice taken is exactly the bytes of the i-th entry and
\* the cursor ends at the length of the extension value.
C10_CursorCarvesEachEntry ==
    (FinishedWellFormed /\ AllKnown) =>
        /\ Len(verified) = Len(entries)
        /\ \A i \in DOMAIN verified :
              Slice(SctValue, verified[i].from, verified[i].from + verified[i].len)
                  = SctBytes(entries[i])
        /\ index = Len(SctValue)

====
